---- MODULE Spec2Model ----
(***************************************************************************)
(* Order-settlement core of the e-commerce backend: cart -> order          *)
(* checkout, stock debit and credit, the order / payment status fields and *)
(* the fee calculation.  The backing store is the only shared state; every *)
(* HTTP request runs in a worker with its own ORM session, which caches    *)
(* the rows it has read and writes the changed columns back at commit.     *)
(***************************************************************************)
EXTENDS Integers, Sequences, FiniteSets, TLC

\* ------------------------------------------------------------------ bounds
MaxStock == 2
MaxOrders == 2
MaxItems == 2
MaxIntents == 2
MaxCredits == 2
MaxTime == 3

Users == {"u1", "u2"}
Products == {"p1", "p2"}
Workers == {"w1", "w2"}
Quantities == {1, 2}

\* ------------------------------------------------------- program constants
Methods == {"credit_card", "debit_card", "pix", "boleto"}

\* Config.TAX_RATES, in units of 1e-4 (0.034 = 340e-4).
TAX_RATES == [credit_card |-> 340, debit_card |-> 290, pix |-> 99, boleto |-> 349]

\* Config.FIXED_FEES, in cents.
FIXED_FEES == [credit_card |-> 60, debit_card |-> 60, pix |-> 0, boleto |-> 349]

OrderStatus ==
  {"pending", "paid", "processing", "shipped", "delivered", "cancelled", "refunded"}

PaymentStatus ==
  {"pending", "completed", "failed", "refunded", "partially_refunded"}

\* Catalogue prices in cents (Product.price, Numeric(10, 2)).
Price == [p1 |-> 500, p2 |-> 250]

\* ------------------------------------------------------------------- state
VARIABLES
  stock,       \* Product.stock_quantity, per product
  cartItems,   \* the cart_items table: rows [id, cart, user, product, quantity,
               \* price_at_time], user being the owner of the row's cart
  nextItemId,  \* next primary key of cart_items
  orders,      \* the orders table with its order_items, indexed by Order.id
  nextIntent,  \* the payment processor: the id of the next payment intent
  now,         \* the clock read by datetime.utcnow()
  pc,          \* per worker: where its request handler stands
  sess,        \* per worker: the ORM session (rows read, pending changes)
  resp,        \* per worker: the response of the request it last finished
  credits,     \* audit record: per order, how often its stock was credited back
  lastOrder,   \* audit record: the order created last and the stock before it
  price,       \* Product.price, per product
  product_name, \* Product.name (and sku, main image), per product
  is_active,   \* Product.is_active, per product
  carts,       \* the carts table: rows [id, user]
  quote        \* the arguments and the result of the last calculate_order_total

\* The columns of the products table that update_product and delete_product
\* write, stock_quantity apart.
catalog == <<price, product_name, is_active>>

vars ==
  <<stock, cartItems, nextItemId, orders, nextIntent, now, pc, sess, resp, credits,
    lastOrder, price, product_name, is_active, carts, quote>>

db ==
  <<stock, cartItems, nextItemId, orders, nextIntent, now, credits, lastOrder, catalog,
    carts, quote>>

NoSess ==
  [op |-> "none", user |-> "none", method |-> "none", order |-> 0,
   items |-> <<>>, seen |-> [p \in Products |-> 0], amount |-> 0, total |-> 0,
   cart |-> 0, names |-> [p \in Products |-> ""]]

NoAudit == [order |-> 0, before |-> [p \in Products |-> 0], cancelled |-> FALSE]

\* ------------------------------------------------------------ pure helpers
RECURSIVE SeqSum(_)
SeqSum(s) == IF s = <<>> THEN 0 ELSE Head(s) + SeqSum(Tail(s))

\* Rows of a table in primary-key order, as the ORM relationship loads them.
RECURSIVE RowsById(_)
RowsById(rows) ==
  IF rows = {} THEN <<>>
  ELSE LET r == CHOOSE x \in rows : \A y \in rows : x.id <= y.id
       IN <<r>> \o RowsById(rows \ {r})

is_in_stock_nonempty(stock_quantity, quantity) == stock_quantity > 0

\* Product.is_in_stock
is_in_stock(stock_quantity, quantity) == stock_quantity >= quantity

reduce_stock_unchecked(stock_quantity, quantity) == stock_quantity - quantity

\* Product.reduce_stock: the new stock_quantity (unchanged when not in stock).
reduce_stock(stock_quantity, quantity) ==
  IF is_in_stock(stock_quantity, quantity)
  THEN stock_quantity - quantity
  ELSE stock_quantity

\* Product.increase_stock
increase_stock(stock_quantity, quantity) == stock_quantity + quantity

\* CartItem.get_subtotal / OrderItem.get_subtotal
get_subtotal_at_current_price(item) == item.quantity * price[item.product]

get_subtotal(item) == item.quantity * item.price_at_time

\* Cart.get_total over the loaded items
get_total(items) == SeqSum([i \in 1..Len(items) |-> get_subtotal(items[i])])

can_be_cancelled_again(status) == status \in {"pending", "paid", "cancelled"}

\* Order.can_be_cancelled
can_be_cancelled(status) == status \in {"pending", "paid"}

\* Cart.query.filter_by(user_id=u).first(): the id of the user's first cart,
\* or 0 when the user has none.
FirstCart(u) ==
  LET found == {c \in carts : c.user = u}
  IN IF found = {} THEN 0
     ELSE (CHOOSE c \in found : \A x \in found : c.id <= x.id).id

\* The rows of the user's first cart, in primary-key order (Cart.items).
CartOf(u) == RowsById({r \in cartItems : r.cart = FirstCart(u)})

\* The products' cached stock after the loop of create_order has debited
\* every loaded cart item in turn.
RECURSIVE DebitAll(_, _)
DebitAll(items, seen) ==
  IF items = <<>> THEN seen
  ELSE LET it == Head(items)
       IN DebitAll(Tail(items),
                   [seen EXCEPT ![it.product] = reduce_stock(@, it.quantity)])

\* The products' cached stock after Order.cancel has credited every item.
RECURSIVE CreditAll(_, _)
CreditAll(items, seen) ==
  IF items = <<>> THEN seen
  ELSE LET it == Head(items)
       IN CreditAll(Tail(items),
                    [seen EXCEPT ![it.product] = increase_stock(@, it.quantity)])

ProductsOf(items) == {items[i].product : i \in 1..Len(items)}

\* Units of product p in a sequence of items.
UnitsOf(items, p) ==
  SeqSum([i \in 1..Len(items) |->
            IF items[i].product = p THEN items[i].quantity ELSE 0])

\* The commit of a session writes the changed column of the rows it touched:
\* the cached stock_quantity of every product it debited or credited.
FlushStock(touched, cached) ==
  [p \in Products |-> IF p \in touched THEN cached[p] ELSE stock[p]]

\* ------------------------------------------------------------ fee calculator
\* The decimal digits that a double keeps through a conversion to text and
\* back (sys.float_info.dig).
DBL_DIG == 15

RECURSIVE Digits(_)
\* The number of decimal digits of a natural number.
Digits(n) == IF n < 10 THEN 1 ELSE 1 + Digits(n \div 10)

\* Decimal(str(float(d))) for a decimal d in units of 1e-6: float(d) is the
\* double nearest to d and str() prints the shortest decimal that reads back as
\* that double, which is d itself while d has at most DBL_DIG digits; of a
\* longer d the digits beyond are lost.
Decimal_str_float(d) ==
  IF Digits(d) <= DBL_DIG THEN d ELSE (d \div 10) * 10

calculate_payment_fees_no_fixed_fee(amount, payment_method) ==
  amount * TAX_RATES[payment_method]

\* calculate_payment_fees(...)['total_fee'] for an amount in cents, in units
\* of 1e-6: amount * tax_rate + fixed_fee / 100.
calculate_payment_fees(amount, payment_method) ==
  amount * TAX_RATES[payment_method] + FIXED_FEES[payment_method] * 10000

\* calculate_order_total: tax_amount and total_amount in units of 1e-6, for a
\* subtotal and a shipping amount in cents.
calculate_order_total(subtotal, payment_method, shipping_amount) ==
  LET fee == calculate_payment_fees(subtotal, payment_method)
  IN [tax_amount |-> fee,
      total_amount |-> subtotal * 10000 + Decimal_str_float(fee) + shipping_amount * 10000]

\* Config.SQLALCHEMY_DATABASE_URI when DATABASE_URL is not set.
SQLALCHEMY_DATABASE_URI == "sqlite"

RECURSIVE Pow2Mod25(_)
\* 2^n modulo 25.
Pow2Mod25(n) == IF n = 0 THEN 1 ELSE (2 * Pow2Mod25(n - 1)) % 25

RECURSIVE Exponent(_, _)
\* The binary exponent e of num / 200: 2^e <= num / 200 < 2^(e + 1), found
\* from den = 200.
Exponent(num, den) ==
  IF num < den THEN Exponent(2 * num, den) - 1
  ELSE IF num >= 2 * den THEN Exponent(num, 2 * den) + 1
  ELSE 0

\* The side of k / 200 (k odd: a number of cents and a half) on which the
\* nearest double lies: -1 below, 1 above, 0 when k / 200 is itself a double.
\* The double is the nearest multiple of 2^(e - 52); k / 200 scaled by
\* 2^(52 - e) is k * 2^(49 - e) / 25, whose remainder modulo 25 decides.
float(k) ==
  LET r == ((k % 25) * Pow2Mod25(49 - Exponent(k, 200))) % 25
  IN IF r = 0 THEN 0 ELSE IF 2 * r < 25 THEN -1 ELSE 1

\* A Numeric(10, 2) column, as the ORM reads it back, keeps two fraction
\* digits of the binary float the handlers assign to it (float(total_fee),
\* float(total_amount)); the code never rounds.  A value that is not halfway
\* between two cents goes to the nearest cent.  A value exactly halfway is
\* rounded by the backend: sqlite stores the double and the result processor
\* formats it with "%.2f", which follows the side on which the double lies
\* (half to even when the double is exact); a decimal NUMERIC column rounds
\* half up.  Argument in units of 1e-6, result in cents.
Numeric2(micro) ==
  LET lo == micro \div 10000
      rest == micro % 10000
      side == float(2 * lo + 1)
  IN IF rest < 5000 THEN lo
     ELSE IF rest > 5000 THEN lo + 1
     ELSE IF SQLALCHEMY_DATABASE_URI # "sqlite" THEN lo + 1
     ELSE IF side = 1 \/ (side = 0 /\ lo % 2 = 1) THEN lo + 1
     ELSE lo

\* ------------------------------------------------------------------- Init
\* No call of calculate_order_total yet.
NoQuote ==
  [subtotal |-> 0, payment_method |-> "none", shipping_amount |-> 0,
   tax_amount |-> 0, total_amount |-> 0]

\* The products as first stored: active, at their catalogue price.
InitCatalog ==
  /\ price = Price
  /\ product_name = [p \in Products |-> "name"]
  /\ is_active = [p \in Products |-> TRUE]

\* The id of the cart that get_or_create_cart created for a user's first
\* request.
CartIdOf == [u1 |-> 1, u2 |-> 2]

\* The carts table after every user's first request.
OneCartEach == {[id |-> CartIdOf[u], user |-> u] : u \in Users}

Init ==
  /\ stock \in [Products -> 0..MaxStock]
  /\ cartItems = {}
  /\ nextItemId = 1
  /\ orders = <<>>
  /\ nextIntent = 1
  /\ now = 1
  /\ pc = [w \in Workers |-> "idle"]
  /\ sess = [w \in Workers |-> NoSess]
  /\ resp = [w \in Workers |-> "none"]
  /\ credits = <<>>
  /\ lastOrder = NoAudit
  /\ InitCatalog
  /\ quote = NoQuote
  /\ carts = {}

\* A request ends: the response is recorded and the session is discarded.
Respond(w, r) ==
  /\ pc' = [pc EXCEPT ![w] = "done"]
  /\ sess' = [sess EXCEPT ![w] = NoSess]
  /\ resp' = [resp EXCEPT ![w] = r]

Goto(w, label, s) ==
  /\ pc' = [pc EXCEPT ![w] = label]
  /\ sess' = [sess EXCEPT ![w] = s]
  /\ UNCHANGED resp

\* The worker takes up its next request.
Finish(w) ==
  /\ pc[w] = "done"
  /\ pc' = [pc EXCEPT ![w] = "idle"]
  /\ resp' = [resp EXCEPT ![w] = "none"]
  /\ UNCHANGED <<db, sess>>

\* ------------------------------------------------------------- get_cart
\* get_or_create_cart, lines 19-20, called by get_cart: the user's cart is
\* looked up; a user without one is about to get one.
GetCartLoad(w, u) ==
  /\ pc[w] = "idle"
  /\ IF FirstCart(u) # 0
     THEN Respond(w, "cart")
     ELSE Goto(w, "cart_new", [NoSess EXCEPT !.op = "get_cart", !.user = u])
  /\ UNCHANGED db

\* get_or_create_cart, lines 21-23: the new cart is inserted and committed;
\* get_cart answers with it, add_to_cart goes on with it.
CartInsert(w) ==
  /\ pc[w] = "cart_new"
  /\ LET id == Cardinality(carts) + 1
     IN /\ carts' = carts \cup {[id |-> id, user |-> sess[w].user]}
        /\ IF sess[w].op = "get_cart"
           THEN Respond(w, "cart")
           ELSE Goto(w, "add_cart", [sess[w] EXCEPT !.cart = id])
  /\ UNCHANGED <<stock, cartItems, nextItemId, orders, nextIntent, now, credits,
                 lastOrder, catalog, quote>>

\* ------------------------------------------------------------- add_to_cart
\* add_to_cart, lines 55-86, for the cart that get_or_create_cart returned:
\* the product and the cart's row for it are read, the stock is checked, and
\* the new or changed row is pending in the session.
AddToCartChecks(w, cart, u, p, q) ==
  LET existing == {r \in cartItems : r.cart = cart /\ r.product = p}
      first == CHOOSE r \in existing : \A y \in existing : r.id <= y.id
  IN IF ~is_active[p]
     THEN Respond(w, "ProductNotFound")
     ELSE IF ~is_in_stock(stock[p], q)
     THEN Respond(w, "InsufficientStock")
     ELSE IF existing # {}
     THEN IF ~is_in_stock(stock[p], first.quantity + q)
          THEN Respond(w, "InsufficientStock")
          ELSE Goto(w, "add_merge",
                    [NoSess EXCEPT !.op = "add_to_cart", !.user = u, !.amount = q,
                       !.items = <<[first EXCEPT !.quantity = @ + q]>>])
     ELSE Goto(w, "add_new",
               [NoSess EXCEPT !.op = "add_to_cart", !.user = u,
                  !.items = <<[id |-> 0, cart |-> cart, user |-> u, product |-> p,
                               quantity |-> q, price_at_time |-> price[p]]>>])

\* add_to_cart up to its commit for a user who has a cart; for a user without
\* one, up to the insert of the cart, with the request's data kept.
AddToCartLoad(w, u, p, q) ==
  /\ pc[w] = "idle"
  /\ IF FirstCart(u) # 0
     THEN AddToCartChecks(w, FirstCart(u), u, p, q)
     ELSE Goto(w, "cart_new",
               [NoSess EXCEPT !.op = "add_to_cart", !.user = u,
                  !.items = <<[id |-> 0, cart |-> 0, user |-> u, product |-> p,
                               quantity |-> q, price_at_time |-> 0]>>])
  /\ UNCHANGED db

\* add_to_cart, lines 55-86, after get_or_create_cart has created the cart.
AddToCartResume(w) ==
  /\ pc[w] = "add_cart"
  /\ LET it == sess[w].items[1]
     IN AddToCartChecks(w, sess[w].cart, it.user, it.product, it.quantity)
  /\ UNCHANGED db

\* The commit of add_to_cart: the INSERT of the new row.
AddToCartInsert(w) ==
  /\ pc[w] = "add_new"
  /\ nextItemId <= MaxItems
  /\ cartItems' = cartItems \cup {[sess[w].items[1] EXCEPT !.id = nextItemId]}
  /\ nextItemId' = nextItemId + 1
  /\ Respond(w, "added")
  /\ UNCHANGED <<stock, orders, nextIntent, now, credits, lastOrder, catalog, carts, quote>>

\* The commit of add_to_cart: the UPDATE of the existing row's quantity.  An
\* UPDATE that matches no row (the row was deleted meanwhile) raises, and the
\* handler rolls back.
AddToCartUpdate(w) ==
  /\ pc[w] = "add_merge"
  /\ LET row == sess[w].items[1]
         old == {r \in cartItems : r.id = row.id}
     IN IF old = {}
        THEN /\ Respond(w, "add_to_cart_failed")
             /\ UNCHANGED cartItems
        ELSE /\ cartItems' = (cartItems \ old) \cup
                               {[r \in old |-> [r EXCEPT !.quantity = row.quantity]][x] : x \in old}
             /\ Respond(w, "added")
  /\ UNCHANGED <<stock, nextItemId, orders, nextIntent, now, credits, lastOrder, catalog, carts, quote>>

\* -------------------------------------------------------- update_cart_item
\* update_cart_item, lines 113-129: the row is looked up by id through the
\* carts of the user, the product's stock is checked, and the new quantity is
\* pending in the session.
UpdateCartItemLoad(w, u, item_id, q) ==
  /\ pc[w] = "idle"
  /\ LET found == {r \in cartItems : r.id = item_id /\ r.user = u}
     IN IF found = {}
        THEN Respond(w, "NotFound")
        ELSE LET row == CHOOSE r \in found : TRUE
             IN IF ~is_in_stock(stock[row.product], q)
                THEN Respond(w, "InsufficientStock")
                ELSE Goto(w, "item_update",
                          [NoSess EXCEPT !.op = "update_cart_item", !.user = u,
                             !.items = <<[row EXCEPT !.quantity = q]>>])
  /\ UNCHANGED db

\* update_cart_item, lines 131-142: the commit writes the quantity; an UPDATE
\* that matches no row raises, and the handler rolls back.
UpdateCartItemCommit(w) ==
  /\ pc[w] = "item_update"
  /\ LET row == sess[w].items[1]
         old == {r \in cartItems : r.id = row.id}
     IN IF old = {}
        THEN /\ Respond(w, "update_cart_item_failed")
             /\ UNCHANGED cartItems
        ELSE /\ cartItems' = (cartItems \ old) \cup
                               {[r EXCEPT !.quantity = row.quantity] : r \in old}
             /\ Respond(w, "item_updated")
  /\ UNCHANGED <<stock, nextItemId, orders, nextIntent, now, credits, lastOrder,
                 catalog, carts, quote>>

\* -------------------------------------------------------- remove_cart_item
RemoveCartItemLoad_any(w, u, item_id) ==
  /\ pc[w] = "idle"
  /\ LET found == {r \in cartItems : r.id = item_id}
     IN IF found = {}
        THEN Respond(w, "NotFound")
        ELSE Goto(w, "item_remove",
                  [NoSess EXCEPT !.op = "remove_cart_item", !.user = u,
                     !.items = <<CHOOSE r \in found : TRUE>>])
  /\ UNCHANGED db

\* remove_cart_item, lines 148-157: the row is looked up by id through the
\* carts of the user.
RemoveCartItemLoad(w, u, item_id) ==
  /\ pc[w] = "idle"
  /\ LET found == {r \in cartItems : r.id = item_id /\ r.user = u}
     IN IF found = {}
        THEN Respond(w, "NotFound")
        ELSE Goto(w, "item_remove",
                  [NoSess EXCEPT !.op = "remove_cart_item", !.user = u,
                     !.items = <<CHOOSE r \in found : TRUE>>])
  /\ UNCHANGED db

\* remove_cart_item, lines 161-169: the commit deletes the row.
RemoveCartItemCommit(w) ==
  /\ pc[w] = "item_remove"
  /\ cartItems' = {r \in cartItems : r.id # sess[w].items[1].id}
  /\ Respond(w, "item_removed")
  /\ UNCHANGED <<stock, nextItemId, orders, nextIntent, now, credits, lastOrder,
                 catalog, carts, quote>>

\* ---------------------------------------------------------------- clear_cart
\* clear_cart, lines 177-195: the rows of the user's first cart are deleted
\* (Cart.clear); a user without a cart is answered at once.
ClearCart(w, u) ==
  /\ pc[w] = "idle"
  /\ cartItems' = {r \in cartItems : r.cart # FirstCart(u)}
  /\ Respond(w, "cart_cleared")
  /\ UNCHANGED <<stock, nextItemId, orders, nextIntent, now, credits, lastOrder,
                 catalog, carts, quote>>

\* ------------------------------------------------------------ create_order
InFlight(op) == Cardinality({w \in Workers : sess[w].op = op})

\* create_order, lines 75-81: the user's cart and its items are read.
CreateOrderLoad(w, u, m) ==
  /\ pc[w] = "idle"
  /\ Len(orders) + InFlight("create_order") < MaxOrders
  /\ IF CartOf(u) = <<>>
     THEN Respond(w, "EmptyCart")
     ELSE Goto(w, "co_cart",
               [NoSess EXCEPT !.op = "create_order", !.user = u, !.method = m,
                  !.items = CartOf(u)])
  /\ UNCHANGED db

\* True when every loaded cart item is in stock, by the stock just read.
AllInStock(items, seen) ==
  \A i \in 1..Len(items) : is_in_stock(seen[items[i].product], items[i].quantity)

\* create_order, lines 83-110: each item's product is read and checked; the
\* products stay cached in the session.
CreateOrderValidate(w) ==
  /\ pc[w] = "co_cart"
  /\ IF ~AllInStock(sess[w].items, stock)
     THEN Respond(w, "InsufficientStock")
     ELSE Goto(w, "co_uow", [sess[w] EXCEPT !.seen = stock, !.names = product_name])
  /\ UNCHANGED db

\* The order_items of a new order (lines 116-125): one per loaded cart item,
\* with the item's price_at_time and the name (sku, image) of its product as
\* the session has it.
OrderItemsOf(items, names) ==
  [i \in 1..Len(items) |->
     [product |-> items[i].product, quantity |-> items[i].quantity,
      price_at_time |-> items[i].price_at_time,
      product_name |-> names[items[i].product]]]

\* Order.generate_order_number when it yields a number that no stored order
\* has.  Unused numbers are interchangeable, so the least one stands for them.
generate_order_number == Len(orders) + 1

\* The Order row that create_order builds (lines 90-110), before it is stored.
NewOrder(u, number, m, items, names, tax, total) ==
  [user |-> u, order_number |-> number, status |-> "pending",
   payment_status |-> "pending",
   subtotal |-> get_total(items), tax_amount |-> tax, shipping_amount |-> 0,
   total_amount |-> total, payment_method |-> m, intent |-> 0,
   shipped_at |-> 0, delivered_at |-> 0, items |-> OrderItemsOf(items, names)]

\* Cart.clear: the loaded rows are deleted.
clear(items) == {r \in cartItems : \A i \in 1..Len(items) : items[i].id # r.id}

\* The tables as the unit of work of create_order (lines 112-133) leaves them
\* in its transaction: the order and its items inserted, the cached stock of
\* every debited product written, the loaded cart rows deleted.
OrderUnitOfWork(w, tax, total) ==
  LET s == sess[w]
      cached == DebitAll(s.items, s.seen)
      touched == {p \in Products : cached[p] # s.seen[p]}
  IN [orders |-> Append(orders, NewOrder(s.user, generate_order_number, s.method,
                                         s.items, s.names, tax, total)),
      stock |-> FlushStock(touched, cached),
      cartItems |-> clear(s.items)]

\* db.session.commit(): the transaction's tables become the stored ones.
commit(uow) == uow

rollback_keeps_flushed(uow) ==
  [orders |-> uow.orders, stock |-> stock, cartItems |-> cartItems]

\* db.session.rollback(): the stored tables stay as they are.
rollback(uow) == [orders |-> orders, stock |-> stock, cartItems |-> cartItems]

\* create_order, lines 112-140: the unit of work commits.
CreateOrderCommit(w) ==
  /\ pc[w] = "co_uow"
  /\ LET info == calculate_order_total(get_total(sess[w].items), sess[w].method, 0)
         after == commit(OrderUnitOfWork(w, Numeric2(info.tax_amount),
                                         Numeric2(info.total_amount)))
     IN /\ orders' = after.orders
        /\ stock' = after.stock
        /\ cartItems' = after.cartItems
  /\ credits' = Append(credits, 0)
  /\ lastOrder' = [order |-> Len(orders) + 1, before |-> stock, cancelled |-> FALSE]
  /\ Respond(w, "created")
  /\ UNCHANGED <<nextItemId, nextIntent, now, catalog, carts, quote>>

\* create_order, lines 142-144: a step of the unit of work raised (the insert,
\* a flush or the commit); the session rolls back.
CreateOrderFail(w) ==
  /\ pc[w] = "co_uow"
  /\ LET info == calculate_order_total(get_total(sess[w].items), sess[w].method, 0)
         after == rollback(OrderUnitOfWork(w, Numeric2(info.tax_amount),
                                           Numeric2(info.total_amount)))
     IN /\ orders' = after.orders
        /\ stock' = after.stock
        /\ cartItems' = after.cartItems
  /\ Respond(w, "create_order_failed")
  /\ UNCHANGED <<nextItemId, nextIntent, now, credits, lastOrder, catalog, carts, quote>>

order_number_unindexed(number) == FALSE

\* The unique index on orders.order_number: true when a stored order has the
\* number, so that the INSERT of another row with it raises IntegrityError.
order_number_taken(number) ==
  \E o \in 1..Len(orders) : orders[o].order_number = number

\* create_order, lines 112-144, when Order.generate_order_number has yielded
\* the number of the stored order o: the INSERT at the flush is refused and
\* the session rolls back.
CreateOrderDuplicate(w, o) ==
  /\ pc[w] = "co_uow"
  /\ o \in 1..Len(orders)
  /\ LET number == orders[o].order_number
         info == calculate_order_total(get_total(sess[w].items), sess[w].method, 0)
         uow == OrderUnitOfWork(w, Numeric2(info.tax_amount),
                                Numeric2(info.total_amount))
         numbered ==
           [uow EXCEPT !.orders =
              Append(orders, [uow.orders[Len(uow.orders)] EXCEPT !.order_number = number])]
         refused == order_number_taken(number)
         after == IF refused THEN rollback(numbered) ELSE commit(numbered)
     IN /\ orders' = after.orders
        /\ stock' = after.stock
        /\ cartItems' = after.cartItems
        /\ IF refused
           THEN /\ Respond(w, "create_order_failed")
                /\ UNCHANGED <<credits, lastOrder>>
           ELSE /\ Respond(w, "created")
                /\ credits' = Append(credits, 0)
                /\ lastOrder' = [order |-> Len(orders) + 1, before |-> stock,
                                 cancelled |-> FALSE]
  /\ UNCHANGED <<nextItemId, nextIntent, now, catalog, carts, quote>>

\* ------------------------------------------------------------ cancel_order
\* cancel_order, lines 151-159: the order is looked up by id and owner.
CancelLoad(w, u, o) ==
  /\ pc[w] = "idle"
  /\ IF o > Len(orders) \/ orders[o].user # u
     THEN Respond(w, "NotFound")
     ELSE IF ~can_be_cancelled(orders[o].status)
     THEN Respond(w, "NotCancellable")
     ELSE credits[o] < MaxCredits /\
          Goto(w, "cancel_order",
               [NoSess EXCEPT !.op = "cancel_order", !.user = u, !.order = o,
                  !.items = orders[o].items])
  /\ UNCHANGED db

\* Order.cancel, lines 142-150, called at cancel_order line 162: the cached
\* status becomes CANCELLED and each item's product is read and credited in
\* the session.
CancelRun(w) ==
  /\ pc[w] = "cancel_order"
  /\ Goto(w, "cancel_uow", [sess[w] EXCEPT !.seen = CreditAll(sess[w].items, stock)])
  /\ UNCHANGED db

\* cancel_order, line 163: the commit writes the order's status and the
\* credited products' cached stock.
CancelCommit(w) ==
  /\ pc[w] = "cancel_uow"
  /\ LET s == sess[w]
     IN /\ orders' = [orders EXCEPT ![s.order].status = "cancelled"]
        /\ stock' = FlushStock(ProductsOf(s.items), s.seen)
        /\ credits' = [credits EXCEPT ![s.order] = @ + 1]
        /\ lastOrder' = IF lastOrder.order = s.order /\ ~lastOrder.cancelled
                        THEN [lastOrder EXCEPT !.cancelled = TRUE]
                        ELSE NoAudit
  /\ Respond(w, "cancelled")
  /\ UNCHANGED <<cartItems, nextItemId, nextIntent, now, catalog, carts, quote>>

\* cancel_order, lines 170-172: the commit raised; the session rolls back.
CancelFail(w) ==
  /\ pc[w] = "cancel_uow"
  /\ Respond(w, "cancel_failed")
  /\ UNCHANGED db

\* ------------------------------------------------------------ update_product
\* The prices and names an admin may give a product.
Prices == {250, 500}
Names == {"name", "renamed"}

\* Request bodies of update_product that carry one of the fields
\* stock_quantity, price, name (the images likewise) and is_active, within the
\* ranges that ProductUpdateSchema accepts.
ProductUpdates ==
  {[stock_quantity |-> v] : v \in 0..MaxStock}
    \cup {[price |-> v] : v \in Prices}
    \cup {[name |-> v] : v \in Names}
    \cup {[is_active |-> v] : v \in BOOLEAN}

\* setattr(product, field, value) for a field of the body, else the old value.
setattr(data, field, old) == IF field \in DOMAIN data THEN data[field] ELSE old

\* The order rows with the items of product p showing the product's new price
\* and name.
Relinked(p, data) ==
  [o \in 1..Len(orders) |->
     [orders[o] EXCEPT !.items =
        [i \in 1..Len(@) |->
           IF @[i].product = p
           THEN [@[i] EXCEPT !.price_at_time = setattr(data, "price", @),
                             !.product_name = setattr(data, "name", @)]
           ELSE @[i]]]]

UpdateProduct_live(w, p, data) ==
  /\ pc[w] = "idle"
  /\ stock' = [stock EXCEPT ![p] = setattr(data, "stock_quantity", @)]
  /\ price' = [price EXCEPT ![p] = setattr(data, "price", @)]
  /\ product_name' = [product_name EXCEPT ![p] = setattr(data, "name", @)]
  /\ is_active' = [is_active EXCEPT ![p] = setattr(data, "is_active", @)]
  /\ lastOrder' = IF "stock_quantity" \in DOMAIN data THEN NoAudit ELSE lastOrder
  /\ orders' = Relinked(p, data)
  /\ Respond(w, "product_updated")
  /\ UNCHANGED <<cartItems, nextItemId, nextIntent, now, credits, carts, quote>>

\* update_product (admin): the whole handler.
UpdateProduct(w, p, data) ==
  /\ pc[w] = "idle"
  /\ stock' = [stock EXCEPT ![p] = setattr(data, "stock_quantity", @)]
  /\ price' = [price EXCEPT ![p] = setattr(data, "price", @)]
  /\ product_name' = [product_name EXCEPT ![p] = setattr(data, "name", @)]
  /\ is_active' = [is_active EXCEPT ![p] = setattr(data, "is_active", @)]
  /\ lastOrder' = IF "stock_quantity" \in DOMAIN data THEN NoAudit ELSE lastOrder
  /\ Respond(w, "product_updated")
  /\ UNCHANGED <<cartItems, nextItemId, orders, nextIntent, now, credits, carts, quote>>

\* delete_product (admin): the product is marked inactive, its row stays.
DeleteProduct(w, p) ==
  /\ pc[w] = "idle"
  /\ is_active' = [is_active EXCEPT ![p] = FALSE]
  /\ Respond(w, "product_deleted")
  /\ UNCHANGED <<stock, cartItems, nextItemId, orders, nextIntent, now, credits,
                 lastOrder, price, product_name, carts, quote>>

\* ------------------------------------------------------ update_order_status
\* The values a request may name as the new status: the enumeration, a value
\* outside it, and none.
StatusInputs == OrderStatus \cup {"bogus", ""}

\* update_order_status (admin): the whole handler.
UpdateOrderStatus(w, o, new_status) ==
  /\ pc[w] = "idle"
  /\ IF o > Len(orders)
     THEN Respond(w, "NotFound") /\ UNCHANGED orders
     ELSE IF new_status = ""
     THEN Respond(w, "StatusRequired") /\ UNCHANGED orders
     ELSE IF new_status \notin OrderStatus
     THEN Respond(w, "InvalidStatus") /\ UNCHANGED orders
     ELSE /\ orders' =
               [orders EXCEPT
                  ![o] = [@ EXCEPT
                            !.status = new_status,
                            !.shipped_at = IF new_status = "shipped" THEN now ELSE @,
                            !.delivered_at = IF new_status = "delivered" THEN now ELSE @]]
          /\ Respond(w, "status_updated")
  /\ UNCHANGED <<stock, cartItems, nextItemId, nextIntent, now, credits, lastOrder, catalog, carts, quote>>

\* ----------------------------------------------------- create_payment_intent
\* create_payment_intent, lines 40-52: the order is looked up by id and owner
\* and must still await payment.
CreateIntentLoad_any(w, u, o, m) ==
  /\ pc[w] = "idle"
  /\ IF o > Len(orders) \/ orders[o].user # u
     THEN Respond(w, "NotFound")
     ELSE Goto(w, "intent_call",
               [NoSess EXCEPT !.op = "create_intent", !.user = u, !.order = o,
                  !.method = m, !.amount = orders[o].subtotal,
                  !.total = orders[o].shipping_amount])
  /\ UNCHANGED db

CreateIntentLoad(w, u, o, m) ==
  /\ pc[w] = "idle"
  /\ IF o > Len(orders) \/ orders[o].user # u
     THEN Respond(w, "NotFound")
     ELSE IF orders[o].payment_status # "pending"
     THEN Respond(w, "PaymentNotPending")
     ELSE Goto(w, "intent_call",
               [NoSess EXCEPT !.op = "create_intent", !.user = u, !.order = o,
                  !.method = m, !.amount = orders[o].subtotal,
                  !.total = orders[o].shipping_amount])
  /\ UNCHANGED db

\* create_payment_intent, lines 54-77: the processor has issued an intent for
\* the total recomputed from the cached subtotal; the order is re-priced.
CreateIntentCommit(w) ==
  /\ pc[w] = "intent_call"
  /\ nextIntent <= MaxIntents
  /\ LET s == sess[w]
         info == calculate_order_total(s.amount, s.method, s.total)
     IN orders' = [orders EXCEPT
                     ![s.order] = [@ EXCEPT !.intent = nextIntent,
                                             !.payment_method = s.method,
                                             !.tax_amount = Numeric2(info.tax_amount),
                                             !.total_amount = Numeric2(info.total_amount)]]
  /\ nextIntent' = nextIntent + 1
  /\ Respond(w, "intent_created")
  /\ UNCHANGED <<stock, cartItems, nextItemId, now, credits, lastOrder, catalog, carts, quote>>

CreateIntentFail_keeps_pricing(w) ==
  /\ pc[w] = "intent_call"
  /\ LET s == sess[w]
         info == calculate_order_total(s.amount, s.method, s.total)
     IN orders' = [orders EXCEPT
                     ![s.order] = [@ EXCEPT !.payment_method = s.method,
                                             !.tax_amount = Numeric2(info.tax_amount),
                                             !.total_amount = Numeric2(info.total_amount)]]
  /\ Respond(w, "create_intent_failed")
  /\ UNCHANGED <<stock, cartItems, nextItemId, nextIntent, now, credits, lastOrder, catalog, carts, quote>>

\* create_payment_intent, lines 79-81: the processor call or the commit raised.
CreateIntentFail(w) ==
  /\ pc[w] = "intent_call"
  /\ Respond(w, "create_intent_failed")
  /\ UNCHANGED db

\* The first order, by id, among the matching ones (Query.first), or 0.
FirstOrder(found) ==
  IF found = {} THEN 0 ELSE CHOOSE o \in found : \A x \in found : o <= x

\* ----------------------------------------------------------- confirm_payment
\* confirm_payment, lines 97-106: the order is looked up by intent id and owner.
ConfirmLoad(w, u, i) ==
  /\ pc[w] = "idle"
  /\ LET o == FirstOrder({x \in 1..Len(orders) :
                             orders[x].intent = i /\ orders[x].user = u})
     IN IF o = 0
        THEN Respond(w, "NotFound")
        ELSE Goto(w, "confirm_call",
                  [NoSess EXCEPT !.op = "confirm_payment", !.user = u, !.order = o])
  /\ UNCHANGED db

\* Statuses the processor reports for an intent.
ProcessorStatuses ==
  {"succeeded", "requires_action", "requires_payment_method", "processing", "canceled"}

ConfirmCommit_strict(w, status) ==
  /\ pc[w] = "confirm_call"
  /\ IF status = "succeeded"
     THEN /\ orders' = [orders EXCEPT ![sess[w].order].payment_status = "completed"]
          /\ Respond(w, "payment_processed")
     ELSE /\ orders' = [orders EXCEPT ![sess[w].order].payment_status = "failed"]
          /\ Respond(w, "payment_processed")
  /\ UNCHANGED <<stock, cartItems, nextItemId, nextIntent, now, credits, lastOrder, catalog, carts, quote>>

\* confirm_payment, lines 108-134: the processor has answered with a status.
ConfirmCommit(w, status) ==
  /\ pc[w] = "confirm_call"
  /\ IF status = "succeeded"
     THEN /\ orders' = [orders EXCEPT ![sess[w].order].payment_status = "completed"]
          /\ Respond(w, "payment_processed")
     ELSE IF status = "requires_action"
     THEN /\ UNCHANGED orders
          /\ Respond(w, "requires_action")
     ELSE /\ orders' = [orders EXCEPT ![sess[w].order].payment_status = "failed"]
          /\ Respond(w, "payment_processed")
  /\ UNCHANGED <<stock, cartItems, nextItemId, nextIntent, now, credits, lastOrder, catalog, carts, quote>>

\* confirm_payment, lines 136-138: the processor call or the commit raised.
ConfirmFail(w) ==
  /\ pc[w] = "confirm_call"
  /\ Respond(w, "confirm_failed")
  /\ UNCHANGED db

\* ------------------------------------------------------------ stripe_webhook
EventTypes ==
  {"payment_intent.succeeded", "payment_intent.payment_failed", "charge.refunded"}

StripeWebhook_swapped(w, verified, type, i) ==
  /\ pc[w] = "idle"
  /\ LET o == FirstOrder({x \in 1..Len(orders) : orders[x].intent = i})
     IN IF ~verified
        THEN Respond(w, "webhook_failed") /\ UNCHANGED orders
        ELSE /\ Respond(w, "success")
             /\ IF o # 0 /\ type = "payment_intent.succeeded"
                THEN orders' = [orders EXCEPT ![o].payment_status = "failed"]
                ELSE IF o # 0 /\ type = "payment_intent.payment_failed"
                THEN orders' = [orders EXCEPT ![o].payment_status = "completed"]
                ELSE UNCHANGED orders
  /\ UNCHANGED <<stock, cartItems, nextItemId, nextIntent, now, credits, lastOrder, catalog, carts, quote>>

StripeWebhook_unverified(w, verified, type, i) ==
  /\ pc[w] = "idle"
  /\ LET o == FirstOrder({x \in 1..Len(orders) : orders[x].intent = i})
     IN /\ Respond(w, "success")
        /\ IF o # 0 /\ type = "payment_intent.succeeded"
           THEN orders' = [orders EXCEPT ![o].payment_status = "completed"]
           ELSE IF o # 0 /\ type = "payment_intent.payment_failed"
           THEN orders' = [orders EXCEPT ![o].payment_status = "failed"]
           ELSE UNCHANGED orders
  /\ UNCHANGED <<stock, cartItems, nextItemId, nextIntent, now, credits, lastOrder, catalog, carts, quote>>

\* stripe_webhook: the whole handler, for an event of the given type about
\* intent i; verified says whether PaymentService.handle_webhook accepted the
\* payload and its signature.
StripeWebhook(w, verified, type, i) ==
  /\ pc[w] = "idle"
  /\ LET o == FirstOrder({x \in 1..Len(orders) : orders[x].intent = i})
     IN IF ~verified
        THEN Respond(w, "webhook_failed") /\ UNCHANGED orders
        ELSE /\ Respond(w, "success")
             /\ IF o # 0 /\ type = "payment_intent.succeeded"
                THEN orders' = [orders EXCEPT ![o].payment_status = "completed"]
                ELSE IF o # 0 /\ type = "payment_intent.payment_failed"
                THEN orders' = [orders EXCEPT ![o].payment_status = "failed"]
                ELSE UNCHANGED orders
  /\ UNCHANGED <<stock, cartItems, nextItemId, nextIntent, now, credits, lastOrder, catalog, carts, quote>>

\* ------------------------------------------------------------- create_refund
\* data.get('amount') of a request that names no amount (None).
NoAmount == -1

\* Python's truth value of the amount: None and 0 are false.
truthy(amount) == amount # NoAmount /\ amount # 0

\* create_refund, lines 189-212: the order is looked up by id and owner; its
\* payment must be completed and it must carry an intent.
RefundLoad(w, u, o, amount) ==
  /\ pc[w] = "idle"
  /\ IF o > Len(orders) \/ orders[o].user # u
     THEN Respond(w, "NotFound")
     ELSE IF orders[o].payment_status # "completed"
     THEN Respond(w, "PaymentNotCompleted")
     ELSE IF orders[o].intent = 0
     THEN Respond(w, "NoPaymentIntent")
     ELSE Goto(w, "refund_call",
               [NoSess EXCEPT !.op = "create_refund", !.user = u, !.order = o,
                  !.amount = amount, !.total = orders[o].total_amount])
  /\ UNCHANGED db

RefundCommit_restocks(w) ==
  /\ pc[w] = "refund_call"
  /\ LET s == sess[w]
         full == ~(truthy(s.amount) /\ s.amount < s.total)
     IN /\ orders' = [orders EXCEPT
                        ![s.order] = [@ EXCEPT
                           !.payment_status =
                              IF full THEN "refunded" ELSE "partially_refunded",
                           !.status = IF full THEN "refunded" ELSE @]]
        /\ stock' = IF full THEN CreditAll(orders[s.order].items, stock) ELSE stock
  /\ Respond(w, "refund_created")
  /\ UNCHANGED <<cartItems, nextItemId, nextIntent, now, credits, lastOrder, catalog, carts, quote>>

\* create_refund, lines 214-236: the processor has created the refund.
RefundCommit(w) ==
  /\ pc[w] = "refund_call"
  /\ LET s == sess[w]
     IN orders' = [orders EXCEPT
                     ![s.order].payment_status =
                        IF truthy(s.amount) /\ s.amount < s.total
                        THEN "partially_refunded" ELSE "refunded"]
  /\ Respond(w, "refund_created")
  /\ UNCHANGED <<stock, cartItems, nextItemId, nextIntent, now, credits, lastOrder, catalog, carts, quote>>

\* create_refund, lines 238-240: the processor call or the commit raised.
RefundFail(w) ==
  /\ pc[w] = "refund_call"
  /\ Respond(w, "refund_failed")
  /\ UNCHANGED db

\* ---------------------------------------------------------- specifications
\* Every cart_items table of at most MaxItems rows.  Two rows of one user for
\* one product are left behind by two add_to_cart requests that both found no
\* existing row (AddToCartLoad, AddToCartInsert).
CartTables ==
  UNION {
    { {[id |-> i, cart |-> CartIdOf[f[i].user], user |-> f[i].user,
        product |-> f[i].product, quantity |-> f[i].quantity,
        price_at_time |-> Price[f[i].product]] : i \in 1..n}
      : f \in [1..n -> [user : Users, product : Products, quantity : Quantities]] }
    : n \in 0..MaxItems }

\* The store with the given stock and carts and no order, all workers idle.
Store(st, rows) ==
  /\ stock = st
  /\ cartItems = rows
  /\ nextItemId = Cardinality(rows) + 1
  /\ orders = <<>>
  /\ nextIntent = 1
  /\ now = 1
  /\ pc = [w \in Workers |-> "idle"]
  /\ sess = [w \in Workers |-> NoSess]
  /\ resp = [w \in Workers |-> "none"]
  /\ credits = <<>>
  /\ lastOrder = NoAudit
  /\ InitCatalog
  /\ quote = NoQuote
  /\ carts = OneCartEach

InitCheckout == \E rows \in CartTables : Store([p \in Products |-> MaxStock], rows)

\* Checkout and cancellation requests served by concurrent workers.
CheckoutNext ==
  \E w \in Workers :
    \/ Finish(w)
    \/ \E u \in Users : CreateOrderLoad(w, u, "pix")
    \/ CreateOrderValidate(w)
    \/ CreateOrderCommit(w)
    \/ CreateOrderFail(w)
    \/ \E u \in Users, o \in 1..MaxOrders : CancelLoad(w, u, o)
    \/ CancelRun(w)
    \/ CancelCommit(w)
    \/ CancelFail(w)

CheckoutSpec == InitCheckout /\ [][CheckoutNext]_vars

\* The cart tables that add_to_cart requests served one after another leave:
\* at most one row per user and product.
MergedCartTables ==
  {rows \in CartTables :
     \A r1, r2 \in rows : (r1.user = r2.user /\ r1.product = r2.product) => r1 = r2}

InitOrder == \E rows \in MergedCartTables : Store([p \in Products |-> MaxStock], rows)

OrderSpec == InitOrder /\ [][CheckoutNext]_vars

\* A cart row holding one unit of product p.
OneUnit(i, u, p) ==
  [id |-> i, cart |-> CartIdOf[u], user |-> u, product |-> p, quantity |-> 1,
   price_at_time |-> Price[p]]

\* Two users each hold one unit of the same product in their carts, and one
\* unit of every product is in stock.
InitRace ==
  \E p \in Products :
    Store([x \in Products |-> 1], {OneUnit(1, "u1", p), OneUnit(2, "u2", p)})

\* Each worker serves one request: a checkout or a cancellation.
RaceNext ==
  \E w \in Workers :
    \/ \E u \in Users, m \in Methods : CreateOrderLoad(w, u, m)
    \/ CreateOrderValidate(w)
    \/ CreateOrderCommit(w)
    \/ CreateOrderFail(w)
    \/ \E u \in Users, o \in 1..MaxOrders : CancelLoad(w, u, o)
    \/ CancelRun(w)
    \/ CancelCommit(w)
    \/ CancelFail(w)

RaceSpec == InitRace /\ [][RaceNext]_vars

\* User u1 has a pending order for one unit of a product of which one unit is
\* left in stock, and user u2 holds one unit of that product in the cart.
InitCancelRace ==
  \E p \in Products, m \in Methods :
    LET info == calculate_order_total(Price[p], m, 0)
    IN   /\ stock = [x \in Products |-> 1]
         /\ cartItems = {OneUnit(2, "u2", p)}
         /\ nextItemId = 3
         /\ orders = <<NewOrder("u1", 1, m, <<OneUnit(1, "u1", p)>>,
                                [x \in Products |-> "name"],
                                Numeric2(info.tax_amount), Numeric2(info.total_amount))>>
         /\ nextIntent = 1
         /\ now = 1
         /\ pc = [w \in Workers |-> "idle"]
         /\ sess = [w \in Workers |-> NoSess]
         /\ resp = [w \in Workers |-> "none"]
         /\ credits = <<0>>
         /\ lastOrder = NoAudit
         /\ InitCatalog
         /\ quote = NoQuote
         /\ carts = OneCartEach

CancelRaceSpec == InitCancelRace /\ [][RaceNext]_vars

\* The cart tables of one row: one user about to check out one product.
SettleCarts == {rows \in MergedCartTables : Cardinality(rows) = 1}
\* The requests of the settlement specification are served one at a time.
SettleWorkers == {"w1"}
\* The amounts a refund request may name: none, zero, less than any order's
\* total, and more than the totals of the orders of one unit.
RefundAmounts == {NoAmount, 0, 100, 1000}

InitSettle == \E rows \in SettleCarts : Store([p \in Products |-> MaxStock], rows)

\* Every handler that acts on an order, from checkout to refund.
SettleNext ==
  \E w \in SettleWorkers :
    \/ Finish(w)
    \/ \E u \in Users, m \in Methods : CreateOrderLoad(w, u, m)
    \/ CreateOrderValidate(w)
    \/ CreateOrderCommit(w)
    \/ CreateOrderFail(w)
    \/ \E u \in Users, o \in 1..MaxOrders : CancelLoad(w, u, o)
    \/ CancelRun(w)
    \/ CancelCommit(w)
    \/ CancelFail(w)
    \/ \E o \in 1..MaxOrders, st \in StatusInputs : UpdateOrderStatus(w, o, st)
    \/ \E u \in Users, o \in 1..MaxOrders, m \in Methods : CreateIntentLoad(w, u, o, m)
    \/ CreateIntentCommit(w)
    \/ CreateIntentFail(w)
    \/ \E u \in Users, i \in 1..MaxIntents : ConfirmLoad(w, u, i)
    \/ \E st \in ProcessorStatuses : ConfirmCommit(w, st)
    \/ ConfirmFail(w)
    \/ \E v \in BOOLEAN, t \in EventTypes, i \in 1..MaxIntents : StripeWebhook(w, v, t, i)
    \/ \E u \in Users, o \in 1..MaxOrders, a \in RefundAmounts : RefundLoad(w, u, o, a)
    \/ RefundCommit(w)
    \/ RefundFail(w)

SettleSpec == InitSettle /\ [][SettleNext]_vars

\* The clock behind datetime.utcnow() advances.
Tick ==
  /\ now < MaxTime
  /\ now' = now + 1
  /\ UNCHANGED <<stock, cartItems, nextItemId, orders, nextIntent, pc, sess, resp,
                 credits, lastOrder, catalog, carts, quote>>

\* User u1 has checked out one unit of a product; the order awaits payment.
InitPlaced ==
  \E p \in Products, m \in Methods :
    LET info == calculate_order_total(Price[p], m, 0)
    IN   /\ stock = [x \in Products |-> IF x = p THEN MaxStock - 1 ELSE MaxStock]
         /\ cartItems = {}
         /\ nextItemId = 2
         /\ orders = <<NewOrder("u1", 1, m, <<OneUnit(1, "u1", p)>>,
                                [x \in Products |-> "name"],
                                Numeric2(info.tax_amount), Numeric2(info.total_amount))>>
         /\ nextIntent = 1
         /\ now = 1
         /\ pc = [w \in Workers |-> "idle"]
         /\ sess = [w \in Workers |-> NoSess]
         /\ resp = [w \in Workers |-> "none"]
         /\ credits = <<0>>
         /\ lastOrder = NoAudit
         /\ InitCatalog
         /\ quote = NoQuote
         /\ carts = OneCartEach

\* The amounts of the refund requests: those of RefundAmounts and the totals
\* of the stored orders.
RefundInputs == RefundAmounts \cup {orders[o].total_amount : o \in 1..Len(orders)}

\* The payment handlers, served by concurrent workers.
PaymentNext ==
  \E w \in Workers :
    \/ Finish(w)
    \/ \E u \in Users, o \in 1..MaxOrders, m \in Methods : CreateIntentLoad(w, u, o, m)
    \/ CreateIntentCommit(w)
    \/ CreateIntentFail(w)
    \/ \E u \in Users, i \in 1..MaxIntents : ConfirmLoad(w, u, i)
    \/ \E st \in ProcessorStatuses : ConfirmCommit(w, st)
    \/ ConfirmFail(w)
    \/ \E v \in BOOLEAN, t \in EventTypes, i \in 1..MaxIntents : StripeWebhook(w, v, t, i)
    \/ \E u \in Users, o \in 1..MaxOrders, a \in RefundInputs : RefundLoad(w, u, o, a)
    \/ RefundCommit(w)
    \/ RefundFail(w)

PaymentSpec == InitPlaced /\ [][PaymentNext]_vars

\* The admin's status updates as time passes.
StatusNext ==
  \/ Tick
  \/ \E w \in Workers :
       \/ Finish(w)
       \/ \E o \in 1..MaxOrders, st \in StatusInputs : UpdateOrderStatus(w, o, st)

StatusSpec == InitPlaced /\ [][StatusNext]_vars

\* No cart and no order yet; every product fully stocked.
InitCart ==
  /\ stock = [p \in Products |-> MaxStock]
  /\ cartItems = {}
  /\ nextItemId = 1
  /\ orders = <<>>
  /\ nextIntent = 1
  /\ now = 1
  /\ pc = [w \in Workers |-> "idle"]
  /\ sess = [w \in Workers |-> NoSess]
  /\ resp = [w \in Workers |-> "none"]
  /\ credits = <<>>
  /\ lastOrder = NoAudit
  /\ InitCatalog
  /\ quote = NoQuote
  /\ carts = {}

\* The request bodies of update_product that change the price.
PriceUpdates == {d \in ProductUpdates : "price" \in DOMAIN d}

\* The user whose requests the cart specification serves.
Shoppers == {"u1"}

\* get_cart and add_to_cart requests of one user, served by concurrent
\* workers, while the admin changes prices.
CartNext ==
  \E w \in Workers :
    \/ Finish(w)
    \/ \E u \in Shoppers : GetCartLoad(w, u)
    \/ CartInsert(w)
    \/ \E u \in Shoppers, p \in Products, q \in Quantities : AddToCartLoad(w, u, p, q)
    \/ AddToCartResume(w)
    \/ AddToCartInsert(w)
    \/ AddToCartUpdate(w)
    \/ \E p \in Products, d \in PriceUpdates : UpdateProduct(w, p, d)

CartSpec == InitCart /\ [][CartNext]_vars

\* User u1 has a pending order for one unit of a product and holds one unit
\* of a product in the cart; user u2 has an empty cart and no order.
InitOwned ==
  \E p, c \in Products, m \in Methods :
    LET info == calculate_order_total(Price[p], m, 0)
    IN   /\ stock = [x \in Products |-> IF x = p THEN MaxStock - 1 ELSE MaxStock]
         /\ cartItems = {OneUnit(2, "u1", c)}
         /\ nextItemId = 3
         /\ orders = <<NewOrder("u1", 1, m, <<OneUnit(1, "u1", p)>>,
                                [x \in Products |-> "name"],
                                Numeric2(info.tax_amount), Numeric2(info.total_amount))>>
         /\ nextIntent = 1
         /\ now = 1
         /\ pc = [w \in Workers |-> "idle"]
         /\ sess = [w \in Workers |-> NoSess]
         /\ resp = [w \in Workers |-> "none"]
         /\ credits = <<0>>
         /\ lastOrder = NoAudit
         /\ InitCatalog
         /\ quote = NoQuote
         /\ carts = OneCartEach

\* The requests that name a cart item or an order, issued by either user and
\* served one at a time, and the processor's webhook.
OwnerNext ==
  \E w \in SettleWorkers :
    \/ Finish(w)
    \/ \E u \in Users, i \in 1..MaxItems, q \in Quantities : UpdateCartItemLoad(w, u, i, q)
    \/ UpdateCartItemCommit(w)
    \/ \E u \in Users, i \in 1..MaxItems : RemoveCartItemLoad(w, u, i)
    \/ RemoveCartItemCommit(w)
    \/ \E u \in Users, o \in 1..MaxOrders : CancelLoad(w, u, o)
    \/ CancelRun(w)
    \/ CancelCommit(w)
    \/ CancelFail(w)
    \/ \E u \in Users, o \in 1..MaxOrders, m \in Methods : CreateIntentLoad(w, u, o, m)
    \/ CreateIntentCommit(w)
    \/ CreateIntentFail(w)
    \/ \E u \in Users, i \in 1..MaxIntents : ConfirmLoad(w, u, i)
    \/ \E st \in ProcessorStatuses : ConfirmCommit(w, st)
    \/ ConfirmFail(w)
    \/ \E v \in BOOLEAN, t \in EventTypes, i \in 1..MaxIntents : StripeWebhook(w, v, t, i)
    \/ \E u \in Users, o \in 1..MaxOrders, a \in RefundAmounts : RefundLoad(w, u, o, a)
    \/ RefundCommit(w)
    \/ RefundFail(w)

OwnerSpec == InitOwned /\ [][OwnerNext]_vars

\* The products that stored order items name.
Ordered ==
  UNION {ProductsOf(orders[o].items) : o \in 1..Len(orders)}

\* The request bodies of update_product that change what an order item
\* copies: the price or the name.
SnapshotUpdates == {d \in ProductUpdates : DOMAIN d \subseteq {"price", "name"}}

\* The statuses the admin sets and the method the customer pays with in the
\* history specification.
HistoryStatuses == {"paid", "shipped"}
HistoryMethods == {"pix"}

\* User u1 has an order placed with one of HistoryMethods and a cart row.
InitHistory == InitOwned /\ orders[1].payment_method \in HistoryMethods

\* The handlers that run after an order was placed, served one request at a
\* time: the admin's updates of the ordered products and of the order's
\* status, the cart handlers, cancellation and the payment handlers.
HistoryNext ==
  \E w \in SettleWorkers :
    \/ Finish(w)
    \/ \E p \in Ordered, d \in SnapshotUpdates : UpdateProduct(w, p, d)
    \/ \E p \in Ordered : DeleteProduct(w, p)
    \/ \E o \in 1..MaxOrders, st \in HistoryStatuses : UpdateOrderStatus(w, o, st)
    \/ \E u \in Users : ClearCart(w, u)
    \/ \E u \in Users, i \in 1..MaxItems, q \in Quantities : UpdateCartItemLoad(w, u, i, q)
    \/ UpdateCartItemCommit(w)
    \/ \E u \in Users, i \in 1..MaxItems : RemoveCartItemLoad(w, u, i)
    \/ RemoveCartItemCommit(w)
    \/ \E u \in Users, o \in 1..MaxOrders : CancelLoad(w, u, o)
    \/ CancelRun(w)
    \/ CancelCommit(w)
    \/ CancelFail(w)
    \/ \E u \in Users, o \in 1..MaxOrders, m \in HistoryMethods :
         CreateIntentLoad(w, u, o, m)
    \/ CreateIntentCommit(w)
    \/ CreateIntentFail(w)
    \/ \E u \in Users, i \in 1..MaxIntents : ConfirmLoad(w, u, i)
    \/ \E st \in ProcessorStatuses : ConfirmCommit(w, st)
    \/ ConfirmFail(w)
    \/ \E v \in BOOLEAN, t \in EventTypes, i \in 1..MaxIntents : StripeWebhook(w, v, t, i)
    \/ \E u \in Users, o \in 1..MaxOrders, a \in RefundAmounts : RefundLoad(w, u, o, a)
    \/ RefundCommit(w)
    \/ RefundFail(w)

HistorySpec == InitHistory /\ [][HistoryNext]_vars

\* Checkout and cancellation of two users served by concurrent workers, with
\* order numbers that may repeat, and the admin's status updates.
NumberNext ==
  \/ CheckoutNext
  \/ \E w \in Workers, o \in 1..MaxOrders : CreateOrderDuplicate(w, o)
  \/ \E w \in Workers, o \in 1..MaxOrders, st \in HistoryStatuses :
       UpdateOrderStatus(w, o, st)

NumberSpec == InitRace /\ [][NumberNext]_vars

\* ------------------------------------------------------- the fee calculator
\* Subtotals and shipping amounts in cents handed to calculate_order_total.
Subtotals == {0, 1, 99, 250, 500, 750, 1000, 3333, 10000, 12345, 99999}
Shippings == {0, 1, 1500}

\* A caller gets the totals of a subtotal, a supported method and a shipping
\* amount from calculate_order_total.
Quote(subtotal, payment_method, shipping_amount) ==
  /\ LET info == calculate_order_total(subtotal, payment_method, shipping_amount)
     IN quote' = [subtotal |-> subtotal, payment_method |-> payment_method,
                  shipping_amount |-> shipping_amount,
                  tax_amount |-> info.tax_amount, total_amount |-> info.total_amount]
  /\ UNCHANGED <<stock, cartItems, nextItemId, orders, nextIntent, now, pc, sess, resp,
                 credits, lastOrder, catalog, carts>>

FeeNext ==
  \E subtotal \in Subtotals, m \in Methods, shipping \in Shippings :
    Quote(subtotal, m, shipping)

FeeSpec == InitCart /\ [][FeeNext]_vars

\* ------------------------------------------------- checkout at changed prices
\* Checkout requests of concurrent workers, while the admin changes the
\* products' prices.
PricedNext ==
  \E w \in Workers :
    \/ Finish(w)
    \/ \E u \in Users : CreateOrderLoad(w, u, "pix")
    \/ CreateOrderValidate(w)
    \/ CreateOrderCommit(w)
    \/ CreateOrderFail(w)
    \/ \E p \in Products, d \in PriceUpdates : UpdateProduct(w, p, d)

PricedSpec == InitOrder /\ [][PricedNext]_vars

\* ------------------------------------------------------------------ claims
\* C1: of two concurrent create_order requests, one per user, each for a cart
\* holding one unit of the same product whose stock is 1, exactly one succeeds
\* and the other answers InsufficientStock; in particular the two users never
\* both get an order.
C1_LastUnitSoldOnce ==
  \A o1, o2 \in 1..Len(orders) : orders[o1].user = orders[o2].user

\* C3: when a create_order and a cancel_order of a different order that touch
\* the same product run concurrently and both commit, the product's stock is
\* its initial stock minus the units the new order debited plus the units the
\* cancellation credited.
C3_NoLostStockUpdate ==
  (/\ \E w1, w2 \in Workers : resp[w1] = "created" /\ resp[w2] = "cancelled"
   /\ Len(orders) = 2
   /\ orders[1].status = "cancelled"
   /\ orders[2].status = "pending")
    => \A p \in Products :
         stock[p] = 1 - UnitsOf(orders[2].items, p) + UnitsOf(orders[1].items, p)

\* C2: in every reachable state, also those reached by interleaved checkouts
\* and cancellations, every product's stock_quantity is at least 0.
C2_StockNeverNegative == \A p \in Products : stock[p] >= 0

\* Two orders for one product have been created and its stock is used up.
C2_Witness ==
  \E p \in Products :
    /\ stock[p] = 0
    /\ Len(orders) = 2
    /\ \A o \in 1..2 : UnitsOf(orders[o].items, p) > 0

\* C4: a create_order that finds the cart empty answers EmptyCart, one that
\* finds a loaded cart item whose quantity exceeds its product's current stock
\* answers InsufficientStock, and either leaves orders, stock and cart rows
\* as they were.
C4_RejectedCheckoutChangesNothing ==
  [][\A w \in Workers :
       /\ (\E u \in Users, m \in Methods :
             CreateOrderLoad(w, u, m) /\ \A r \in cartItems : r.user # u)
            => /\ resp'[w] = "EmptyCart"
               /\ pc'[w] = "done"
               /\ UNCHANGED <<stock, cartItems, orders>>
       /\ (/\ pc[w] = "co_cart"
           /\ pc'[w] # pc[w]
           /\ \E i \in 1..Len(sess[w].items) :
                sess[w].items[i].quantity > stock[sess[w].items[i].product])
            => /\ resp'[w] = "InsufficientStock"
               /\ pc'[w] = "done"
               /\ UNCHANGED <<stock, cartItems, orders>>]_vars

\* One checkout was refused for its empty cart and one for lack of stock.
C4_Witness ==
  \E w1, w2 \in Workers :
    /\ resp[w1] = "EmptyCart"
    /\ resp[w2] = "InsufficientStock"

\* C5: when create_order succeeds, the user's cart is empty afterwards, the
\* order has one item per former cart item with the same quantity, and every
\* product's stock has gone down by exactly the units the order holds of it.
C5_CheckoutDebitsExactly ==
  [][\A w \in Workers :
       (pc[w] = "co_uow" /\ pc'[w] = "done" /\ resp'[w] = "created")
         => LET o == orders'[Len(orders')]
                former == CartOf(o.user)
            IN /\ \A r \in cartItems' : r.user # o.user
               /\ Len(o.items) = Len(former)
               /\ \A i \in 1..Len(former) :
                    /\ o.items[i].product = former[i].product
                    /\ o.items[i].quantity = former[i].quantity
               /\ \A p \in Products : stock'[p] = stock[p] - UnitsOf(o.items, p)]_vars

C7_CancelRestoresStock == lastOrder.cancelled => stock = lastOrder.before

\* C8: a cancel_order request for an order of the caller whose status is
\* neither pending nor paid, an already cancelled order included, answers
\* NotCancellable and leaves every order's status and every product's stock
\* as they were.
C8_NotCancellableChangesNothing ==
  [][\A w \in Workers, u \in Users, o \in 1..MaxOrders :
       (/\ CancelLoad(w, u, o)
        /\ o <= Len(orders)
        /\ orders[o].user = u
        /\ orders[o].status \notin {"pending", "paid"})
         => /\ resp'[w] = "NotCancellable"
            /\ pc'[w] = "done"
            /\ UNCHANGED <<stock, orders, credits>>]_vars

\* A cancellation of an order that was cancelled before has been refused.
C8_Witness ==
  \E w \in Workers :
    /\ resp[w] = "NotCancellable"
    /\ \E o \in 1..Len(orders) : orders[o].status = "cancelled" /\ credits[o] = 1

\* C9: over any sequence of requests on an order, the stock debited at its
\* creation is credited back at most once, and it has been credited back
\* exactly when the order is cancelled or fully refunded (so never for a
\* partial refund alone).
C9_StockCreditedOnce ==
  \A o \in 1..Len(orders) :
    /\ credits[o] <= 1
    /\ credits[o] = 1 <=>
         (orders[o].status = "cancelled" \/ orders[o].payment_status = "refunded")

\* C10: every stored order has total_amount = subtotal + tax_amount +
\* shipping_amount, also after create_payment_intent has re-priced it.
C10_TotalIsSumOfParts ==
  \A o \in 1..Len(orders) :
    orders[o].total_amount =
      orders[o].subtotal + orders[o].tax_amount + orders[o].shipping_amount

\* The edges along which an order's status may move.
StatusEdges ==
  {<<"pending", "paid">>, <<"paid", "processing">>, <<"processing", "shipped">>,
   <<"shipped", "delivered">>, <<"pending", "cancelled">>, <<"paid", "cancelled">>}

\* C11: update_order_status changes an order's status only along the allowed
\* edges and rejects a request for any other change of status; a target
\* outside the enumeration answers InvalidStatus and leaves the order as it
\* was.
C11_StatusFollowsEdges ==
  [][\A w \in Workers, o \in 1..MaxOrders, st \in StatusInputs :
       (UpdateOrderStatus(w, o, st) /\ o <= Len(orders))
         => /\ orders'[o].status # orders[o].status
                 => <<orders[o].status, orders'[o].status>> \in StatusEdges
            /\ (st \in OrderStatus /\ st # orders[o].status
                  /\ <<orders[o].status, st>> \notin StatusEdges)
                 => resp'[w] # "status_updated"
            /\ (st \notin OrderStatus /\ st # "")
                 => resp'[w] = "InvalidStatus" /\ UNCHANGED orders]_vars

\* The edges along which an order's payment_status may move.
PaymentEdges ==
  {<<"pending", "completed">>, <<"pending", "failed">>,
   <<"completed", "refunded">>, <<"completed", "partially_refunded">>}

\* C12: under any interleaving of confirm_payment, stripe_webhook and
\* create_refund requests an order's payment_status changes only along
\* pending -> completed, pending -> failed, completed -> refunded and
\* completed -> partially_refunded; in particular a failed, refunded or
\* partially refunded order keeps its payment_status.
C12_PaymentStatusFollowsEdges ==
  [][\A o \in 1..Len(orders) :
       orders'[o].payment_status # orders[o].payment_status
         => <<orders[o].payment_status, orders'[o].payment_status>> \in PaymentEdges]_vars

\* C13: once shipped_at (delivered_at) has been set by an update_order_status
\* entering shipped (delivered), a later update to that same status does not
\* overwrite it.
C13_TimestampsSetOnce ==
  [][\A w \in Workers, o \in 1..MaxOrders :
       /\ (UpdateOrderStatus(w, o, "shipped") /\ o <= Len(orders)
             /\ orders[o].shipped_at # 0)
            => orders'[o].shipped_at = orders[o].shipped_at
       /\ (UpdateOrderStatus(w, o, "delivered") /\ o <= Len(orders)
             /\ orders[o].delivered_at # 0)
            => orders'[o].delivered_at = orders[o].delivered_at]_vars

\* The orders that carry intent i.
WithIntent(i) == {o \in 1..Len(orders) : orders[o].intent = i}

\* C14: a verified payment_intent.succeeded webhook sets the payment_status
\* of the order with that intent id to completed and a verified
\* payment_intent.payment_failed sets it to failed, changing nothing else;
\* a succeeded event delivered for an order that a first delivery has
\* already completed answers success and leaves the whole state as it is.
C14_WebhookSetsStatusIdempotently ==
  [][\A w \in Workers, i \in 1..MaxIntents :
       /\ (StripeWebhook(w, TRUE, "payment_intent.succeeded", i) /\ WithIntent(i) # {})
            => /\ resp'[w] = "success"
               /\ \E o \in WithIntent(i) :
                    orders' = [orders EXCEPT ![o].payment_status = "completed"]
               /\ (\A o \in WithIntent(i) : orders[o].payment_status = "completed")
                    => UNCHANGED db
       /\ (StripeWebhook(w, TRUE, "payment_intent.payment_failed", i) /\ WithIntent(i) # {})
            => /\ resp'[w] = "success"
               /\ \E o \in WithIntent(i) :
                    orders' = [orders EXCEPT ![o].payment_status = "failed"]]_vars

\* Two deliveries of events for the order's intent have been answered with
\* success and the order is completed.
C14_Witness ==
  /\ \A w \in Workers : resp[w] = "success"
  /\ \E o \in 1..Len(orders) :
       orders[o].intent # 0 /\ orders[o].payment_status = "completed"

\* C15: a webhook that fails verification is answered with an error, one
\* whose intent id matches no order is answered with success, and neither
\* changes an order, a cart or the stock.
C15_RejectedOrUnmatchedWebhookChangesNothing ==
  [][\A w \in Workers, t \in EventTypes, i \in 1..MaxIntents :
       /\ StripeWebhook(w, FALSE, t, i)
            => resp'[w] = "webhook_failed" /\ UNCHANGED db
       /\ (StripeWebhook(w, TRUE, t, i) /\ WithIntent(i) = {})
            => resp'[w] = "success" /\ UNCHANGED db]_vars

\* One webhook was refused and one was accepted while no order carries an
\* intent.
C15_Witness ==
  /\ \E w1, w2 \in Workers : resp[w1] = "webhook_failed" /\ resp[w2] = "success"
  /\ \A o \in 1..Len(orders) : orders[o].intent = 0

\* C16: confirm_payment sets the order's payment_status to completed when the
\* processor reports succeeded, leaves the order entirely unchanged when it
\* reports requires_action, and sets payment_status to failed for every other
\* reported status; no other field of the order changes.
C16_ConfirmMapsProcessorStatus ==
  [][\A w \in Workers, st \in ProcessorStatuses :
       ConfirmCommit(w, st)
         => LET o == sess[w].order
            IN IF st = "succeeded"
               THEN orders' = [orders EXCEPT ![o].payment_status = "completed"]
               ELSE IF st = "requires_action"
               THEN UNCHANGED db /\ resp'[w] = "requires_action"
               ELSE orders' = [orders EXCEPT ![o].payment_status = "failed"]]_vars

\* One confirmation was told that the payment requires action and one was
\* processed, leaving the order failed.
C16_Witness ==
  /\ \E w1, w2 \in Workers :
       resp[w1] = "requires_action" /\ resp[w2] = "payment_processed"
  /\ \E o \in 1..Len(orders) : orders[o].payment_status = "failed"

\* C17: create_payment_intent on an order of the caller whose payment_status is
\* not pending is answered with the not-pending error without going on to the
\* processor call, and leaves the order's intent, payment_method, tax_amount and
\* total_amount (the whole store) unchanged.
C17_NotPendingIntentRejected ==
  [][\A w \in Workers, u \in Users, o \in 1..MaxOrders, m \in Methods :
       (/\ CreateIntentLoad(w, u, o, m)
        /\ o <= Len(orders)
        /\ orders[o].user = u
        /\ orders[o].payment_status # "pending")
         => /\ resp'[w] = "PaymentNotPending"
            /\ pc'[w] # "intent_call"
            /\ UNCHANGED db]_vars

\* A create-intent request was rejected for an order that already carries an
\* intent and is no longer pending.
C17_Witness ==
  \E w \in Workers, o \in 1..Len(orders) :
    /\ resp[w] = "PaymentNotPending"
    /\ orders[o].payment_status # "pending"
    /\ orders[o].intent # 0

\* C18: after a successful create_payment_intent with method m the order's
\* payment_method is m, its tax_amount is the fee of its subtotal for m as the
\* store holds it, its total_amount equals subtotal plus that tax_amount plus
\* shipping_amount, and subtotal and shipping_amount are unchanged.
C18_IntentRepricesForChosenMethod ==
  [][\A w \in Workers :
       CreateIntentCommit(w)
         => LET o == sess[w].order
                m == sess[w].method
                r == orders'[o]
            IN /\ r.payment_method = m
               /\ r.subtotal = orders[o].subtotal
               /\ r.shipping_amount = orders[o].shipping_amount
               /\ r.tax_amount = Numeric2(calculate_payment_fees(r.subtotal, m))
               /\ r.total_amount = r.subtotal + r.tax_amount + r.shipping_amount]_vars

\* An order re-priced by a payment intent whose stored total is not the sum of
\* its stored parts.
C18_Witness ==
  \E w \in Workers, o \in 1..Len(orders) :
    /\ resp[w] = "intent_created"
    /\ orders[o].intent # 0
    /\ orders[o].payment_method = "debit_card"
    /\ orders[o].total_amount #
         orders[o].subtotal + orders[o].tax_amount + orders[o].shipping_amount

\* C19: when the processor call of create_payment_intent, confirm_payment or
\* create_refund fails, the request ends with no order field changed (so
\* tax_amount, total_amount, payment_method, intent, payment_status and status
\* are as before the call) and with stock and carts unchanged.
C19_ProcessorFailureChangesNothing ==
  [][\A w \in Workers :
       (CreateIntentFail(w) \/ ConfirmFail(w) \/ RefundFail(w))
         => /\ UNCHANGED <<orders, stock, cartItems>>
            /\ resp'[w] \in {"create_intent_failed", "confirm_failed", "refund_failed"}]_vars

\* A create-intent request and a confirm or refund request have both failed at
\* the processor.
C19_Witness ==
  \E w1, w2 \in Workers :
    /\ resp[w1] = "create_intent_failed"
    /\ resp[w2] \in {"confirm_failed", "refund_failed"}

\* C20: create_refund on an order of the caller whose payment_status is not
\* completed is refused and changes nothing; a successful refund with the
\* amount omitted or equal to the order total sets payment_status to refunded,
\* and one with an amount strictly smaller than the total sets it to
\* partially_refunded.
C20_RefundSetsStatusByAmount ==
  [][/\ \A w \in Workers, u \in Users, o \in 1..MaxOrders, a \in RefundInputs :
          (/\ RefundLoad(w, u, o, a)
           /\ o <= Len(orders)
           /\ orders[o].user = u
           /\ orders[o].payment_status # "completed")
            => resp'[w] = "PaymentNotCompleted" /\ UNCHANGED db
     /\ \A w \in Workers :
          RefundCommit(w)
            => LET s == sess[w]
                   after == orders'[s.order].payment_status
               IN /\ (s.amount = NoAmount \/ s.amount = s.total) => after = "refunded"
                  /\ (s.amount # NoAmount /\ s.amount < s.total)
                       => after = "partially_refunded"]_vars

\* A refund request has succeeded and the order is marked refunded in full or
\* in part.
C20_Witness ==
  \E w \in Workers, o \in 1..Len(orders) :
    /\ resp[w] = "refund_created"
    /\ orders[o].payment_status \in {"refunded", "partially_refunded"}

\* C21: no step of a payment operation (create_payment_intent, confirm_payment,
\* stripe_webhook, create_refund) changes the status of an order or the stock
\* of a product; a full refund leaves status as it was and restocks nothing.
C21_PaymentsLeaveStatusAndStock ==
  [][PaymentNext
       => /\ stock' = stock
          /\ Len(orders') = Len(orders)
          /\ \A o \in 1..Len(orders) : orders'[o].status = orders[o].status]_vars

\* An order refunded in full whose status is still pending and whose unit is
\* still debited from the stock.
C21_Witness ==
  \E w \in Workers, o \in 1..Len(orders) :
    /\ resp[w] = "refund_created"
    /\ orders[o].payment_status = "refunded"
    /\ orders[o].status = "pending"
    /\ \E p \in Products : stock[p] = MaxStock - 1

\* C22: an add_to_cart request of a user with a cart, for an active product of
\* which the cart already holds n units (n = 0 when it holds none), is refused
\* with InsufficientStock and changes nothing when n plus the requested
\* quantity exceeds the product's stock.
C22_AddBeyondStockRejected ==
  [][\A w \in Workers, u \in Users, p \in Products, q \in Quantities :
       (/\ AddToCartLoad(w, u, p, q)
        /\ FirstCart(u) # 0
        /\ is_active[p]
        /\ UnitsOf(CartOf(u), p) + q > stock[p])
         => resp'[w] = "InsufficientStock" /\ UNCHANGED db]_vars

\* The cart holds more units of a product than are in stock.
C22_Witness ==
  \E u \in Users, p \in Products : UnitsOf(CartOf(u), p) > stock[p]

\* C23: a successful add_to_cart for a product that the cart already holds
\* adds the requested quantity to the stored row, creates no second row, and
\* leaves the row's price_at_time as it was, whatever the product's price is
\* now.
C23_MergeAddsToExistingItem ==
  [][\A w \in Workers :
       (AddToCartUpdate(w) /\ resp'[w] = "added")
         => LET id == sess[w].items[1].id
                old == CHOOSE r \in cartItems : r.id = id
            IN /\ cartItems' =
                    (cartItems \ {old}) \cup
                      {[old EXCEPT !.quantity = @ + sess[w].amount]}
               /\ \A r \in cartItems' : r.id = id => r.price_at_time = old.price_at_time]_vars

\* A merged row that keeps the price of its first add although the product's
\* price has changed since.
C23_Witness ==
  \E w \in Workers, r \in cartItems :
    /\ resp[w] = "added"
    /\ r.quantity = 2
    /\ r.price_at_time # price[r.product]

\* C24: update_cart_item and remove_cart_item for a stored cart item of
\* another user, and cancel_order, create_payment_intent, confirm_payment and
\* create_refund for a stored order of another user, answer NotFound and
\* change nothing: the item, the order and all stock are as before.
C24_ForeignItemOrOrderNotFound ==
  [][\A w \in Workers, u \in Users :
       LET foreignItem(i) == \E r \in cartItems : r.id = i /\ r.user # u
           foreignOrder(o) == o <= Len(orders) /\ orders[o].user # u
           foreignIntent(i) ==
             /\ \E o \in 1..Len(orders) : orders[o].intent = i
             /\ \A o \in 1..Len(orders) : orders[o].intent = i => orders[o].user # u
           refused == resp'[w] = "NotFound" /\ pc'[w] = "done" /\ UNCHANGED db
       IN /\ \A i \in 1..MaxItems, q \in Quantities :
               (UpdateCartItemLoad(w, u, i, q) /\ foreignItem(i)) => refused
          /\ \A i \in 1..MaxItems :
               (RemoveCartItemLoad(w, u, i) /\ foreignItem(i)) => refused
          /\ \A o \in 1..MaxOrders :
               (CancelLoad(w, u, o) /\ foreignOrder(o)) => refused
          /\ \A o \in 1..MaxOrders, m \in Methods :
               (CreateIntentLoad(w, u, o, m) /\ foreignOrder(o)) => refused
          /\ \A i \in 1..MaxIntents :
               (ConfirmLoad(w, u, i) /\ foreignIntent(i)) => refused
          /\ \A o \in 1..MaxOrders, a \in RefundAmounts :
               (RefundLoad(w, u, o, a) /\ foreignOrder(o)) => refused]_vars

\* A request was answered NotFound while the cart item and the paid order of
\* user u1 are stored.
C24_Witness ==
  \E w \in Workers :
    /\ resp[w] = "NotFound"
    /\ \E r \in cartItems : r.user = "u1"
    /\ \E o \in 1..Len(orders) :
         orders[o].user = "u1" /\ orders[o].payment_status = "completed"

\* C25: no step changes the order items (product name, price, quantity) or the
\* subtotal of a stored order, and no step removes an order or an order item.
C25_OrderSnapshotFrozen ==
  [][/\ Len(orders') >= Len(orders)
     /\ \A o \in 1..Len(orders) :
          /\ orders'[o].items = orders[o].items
          /\ orders'[o].subtotal = orders[o].subtotal]_vars

\* A stored order item shows a name or a price that its product no longer
\* has, and an item of a product that was deleted since.
C25_Witness ==
  \E o \in 1..Len(orders) :
    \E i \in 1..Len(orders[o].items) :
      LET it == orders[o].items[i]
      IN /\ it.product_name # product_name[it.product]
         /\ it.price_at_time # price[it.product]
         /\ ~is_active[it.product]
         /\ orders[o].status = "cancelled"

\* C26: no two stored orders share an order_number, no step changes the
\* order_number of a stored order, and a create_order whose generated number
\* is that of a stored order fails and stores nothing.
C26_OrderNumberUniqueAndFixed ==
  [][/\ \A o1, o2 \in 1..Len(orders') :
          orders'[o1].order_number = orders'[o2].order_number => o1 = o2
     /\ \A o \in 1..Len(orders) :
          Len(orders') >= o /\ orders'[o].order_number = orders[o].order_number
     /\ \A w \in Workers, o \in 1..MaxOrders :
          CreateOrderDuplicate(w, o)
            => resp'[w] = "create_order_failed" /\ UNCHANGED db]_vars

\* Two orders with different numbers are stored, one of them cancelled.
C26_Witness ==
  /\ Len(orders) = 2
  /\ orders[1].order_number # orders[2].order_number
  /\ \E o \in 1..2 : orders[o].status = "cancelled"
  /\ \E w \in Workers : resp[w] = "create_order_failed"

\* The rates (in units of 1e-4) and fixed fees (in cents) that the
\* specification gives for the payment methods.
StatedRates == [credit_card |-> 340, debit_card |-> 290, pix |-> 99, boleto |-> 349]
StatedFixedFees == [credit_card |-> 60, debit_card |-> 60, pix |-> 0, boleto |-> 349]

C28_OneCartOneItem ==
  /\ \A u \in Users : Cardinality({c \in carts : c.user = u}) <= 1
  /\ \A r1, r2 \in cartItems :
       (r1.cart = r2.cart /\ r1.product = r2.product) => r1.id = r2.id

\* Two requests of one user had both found no cart and the first of them had
\* inserted one, or two had both found no row of the cart for the product and
\* the first of them had inserted one.
C28_Witness ==
  \E w1, w2 \in Workers :
    /\ w1 # w2
    /\ \/ /\ pc[w2] = "cart_new"
          /\ resp[w1] = "cart"
          /\ \E c \in carts : c.user = sess[w2].user
       \/ /\ pc[w2] = "add_new"
          /\ \E r \in cartItems :
               r.cart = sess[w2].cart /\ r.product = sess[w2].product

\* The sum of quantity * price_at_time over a sequence of cart or order items.
SumAtPriceAtTime(items) ==
  SeqSum([i \in 1..Len(items) |-> items[i].quantity * items[i].price_at_time])

\* C29: every order's subtotal is the sum of quantity * price_at_time over its
\* order items, and the order that create_order stores has the total of the
\* cart that the request read as its subtotal; a later product price changes
\* neither.
C29_SubtotalIsSumOfItems ==
  /\ [](\A o \in 1..Len(orders) : orders[o].subtotal = SumAtPriceAtTime(orders[o].items))
  /\ [][\A w \in Workers :
          (pc[w] = "co_uow" /\ resp'[w] = "created")
            => orders'[Len(orders')].subtotal = SumAtPriceAtTime(sess[w].items)]_vars

\* An order is stored whose item has a price_at_time that is not the
\* product's current price.
C29_Witness ==
  \E o \in 1..Len(orders) :
    /\ orders[o].subtotal > 0
    /\ \E i \in 1..Len(orders[o].items) :
         orders[o].items[i].price_at_time # price[orders[o].items[i].product]

\* C30: a verified payment_intent.succeeded event about an intent that
\* create_payment_intent issued for the placed order sets that order's
\* payment_status to completed, also when create_payment_intent has issued
\* another intent for the order since.
C30_SucceededEventCompletesOrder ==
  [][\A w \in Workers, i \in 1..MaxIntents :
       (i < nextIntent /\ StripeWebhook(w, TRUE, "payment_intent.succeeded", i))
         => orders'[1].payment_status = "completed"]_vars

\* The webhook has answered while the order, for which two intents were
\* issued, carries the second and is still pending.
C30_Witness ==
  /\ nextIntent = 3
  /\ orders[1].intent = 2
  /\ orders[1].payment_status = "pending"
  /\ \E w \in Workers : resp[w] = "success"

====
